---- MODULE Spec2Model ----
(***************************************************************************)
(* A model of simdriver's run-campaign orchestrator:                       *)
(*   run_fast      (src/src/simdriver/run_fast.py)                         *)
(*   run_turbsim   (src/src/simdriver/run_turbsim.py)                      *)
(*   initial_state (src/src/simdriver/initial_state.py)                    *)
(*                                                                         *)
(* One coordinating thread runs the called function; its local variables   *)
(* are the record `frame`.  initial_state calls run_fast again, so the     *)
(* caller's locals are pushed on `stack` for the duration of the nested    *)
(* call.  External processes (OpenFAST.exe, TurbSim.exe) are the entries   *)
(* of `procs`; they exit on their own (ProcExit), with any exit code.      *)
(*                                                                         *)
(* Wind speeds and turbulence intensities are fixed-point numbers in       *)
(* units of 0.001.  The filesystem is modelled as sets of paths; rmtree    *)
(* removes a tree that exists and raises when it does not.                 *)
(***************************************************************************)
EXTENDS Integers, Sequences, FiniteSets, TLC

VARIABLES frame, stack, procs, dirs, outb, parquet, model_dir, corrupt,
          dat, fst, boots, campaign

\* The per-case configuration files on disk: inflow (.dat) and .fst files.
conf == <<dat, fst>>

\* What has happened so far: the bootstraps completed, the campaign number.
hist == <<boots, campaign>>

vars == <<frame, stack, procs, dirs, outb, parquet, model_dir, corrupt,
          dat, fst, boots, campaign>>

(***************************************************************************)
(* Bounds of the model.                                                    *)
(***************************************************************************)
MaxCases == 3
MaxProc == 2
MaxWindList == 2
MaxCampaigns == 2

(***************************************************************************)
(* Program constants.                                                      *)
(***************************************************************************)
DEFAULT_MAX_PROCESSES == 20

(***************************************************************************)
(* Input values.                                                           *)
(***************************************************************************)
Speeds == {5000, 5004, 10000}
Intensities == {10000, 10004}
WindPaths == { [dir |-> "w", stem |-> "a", ext |-> "bts"],
               [dir |-> "w", stem |-> "a", ext |-> "wnd"],
               [dir |-> "w", stem |-> "b", ext |-> "hh"],
               [dir |-> "v", stem |-> "a", ext |-> "bts"],
               [dir |-> "w", stem |-> "c", ext |-> "txt"] }
DirFiles == {p \in WindPaths : p.dir = "w"}

NoneV == -1

\* The model directory (Path(input_file).parent) and the files in it.
ModelDir == <<"model", <<>>>>
ModelFiles == {"model.fst", "ElastoDyn.dat", "ServoDyn.dat"}
CacheFile == "simdriver_initial_state.csv"

\* run_fast.py:242  os.path.isfile(model_dir / "simdriver_initial_state.csv")
cache == CacheFile \in DOMAIN model_dir

Min(a, b) == IF a < b THEN a ELSE b

SeqsUpTo(S, n) == UNION {[1..m -> S] : m \in 0..n}

Range(s) == {s[i] : i \in 1..Len(s)}

\* math.ceil(n / d) for d > 0
Ceil(n, d) == (n + d - 1) \div d

(***************************************************************************)
(* Identifiers.                                                            *)
(***************************************************************************)
\* f"{float(x):05.2f}": x (in 0.001) printed with two decimals, i.e. rounded
\* to a multiple of 0.01.  The result is in units of 0.01.
Format2(x) == (x + 5) \div 10

\* run_fast.py:152  id = f"U_{float(u):05.2f}".replace(".", "d")
SteadyId(u) == <<"U", Format2(u)>>

\* Path(wind_file_path).stem
Stem(p) == <<p.stem>>

\* run_turbsim.py:126-131
TurbsimId(u, ti, i, wind_fields_per_case, first_wind_field_number) ==
    IF wind_fields_per_case > 1 \/ first_wind_field_number # 1
    THEN <<"U", Format2(u), "TI", Format2(ti), "C", i>>
    ELSE <<"U", Format2(u), "TI", Format2(ti)>>

\* glob(f"{wind_files}/*.bts") + glob(".../*.wnd") + glob(".../*.hh") over
\* a directory whose wind files are the set D.
RECURSIVE SetToSeq(_)
SetToSeq(S) == IF S = {} THEN <<>>
               ELSE LET x == CHOOSE y \in S : TRUE
                    IN <<x>> \o SetToSeq(S \ {x})

Glob(D) == SetToSeq({p \in D : p.ext = "bts"})
           \o SetToSeq({p \in D : p.ext = "wnd"})
           \o SetToSeq({p \in D : p.ext = "hh"})

SupportedExt(p) == p.ext \in {"hh", "bts", "wnd"}

(***************************************************************************)
(* Frames.                                                                 *)
(***************************************************************************)
NewFrame(func, args) ==
    [ func |-> func, args |-> args, pc |-> "start",
      inflow_files |-> <<>>, inp_files |-> <<>>,
      init_state |-> "unbound",
      lo |-> 1, temp_dirs |-> <<>>, fst_files |-> <<>>, tasks |-> <<>>,
      k |-> 0, error |-> "unbound", failures |-> <<>>, ing |-> 1,
      message |-> "none", prepared |-> {},
      exc |-> "none", converted |-> {}, counter |-> 1, ed |-> <<>>,
      work |-> <<>>,
      summary |-> [n |-> NoneV, ids |-> <<>>] ]

\* initialization_options, as far as they decide where files go:
\* whether initial_state_output is given, and retain_temp_files.
DefaultOptions == [initial_state_output |-> FALSE, retain_temp_files |-> FALSE]
AllOptions == [initial_state_output : BOOLEAN, retain_temp_files : BOOLEAN]

\* Whether the template of fast_version exists (run_fast.py:108-112) and
\* whether the model's input files can be read (run_fast.py:117-121).
FastEnv(version_ok, model_ok, options) ==
    [ fast_version_ok |-> version_ok, model_ok |-> model_ok,
      initialization_options |-> options ]

FastArgs(output_dir, steady_given, steady, wf_kind, wind_files, N, init, custom) ==
    [ output_dir |-> output_dir,
      steady_given |-> steady_given, steady_wind_speed |-> steady,
      wf_kind |-> wf_kind, wind_files |-> wind_files,
      max_processes |-> N,
      initialize_turbine_state |-> init,
      custom_initial_state |-> custom ]

\* The stems of the campaign's cases, in input order.
Cases(f) == IF f.func = "run_fast"
            THEN [i \in 1..Len(f.inflow_files) |-> f.inflow_files[i].stem]
            ELSE f.inp_files

NCases(f) == Len(Cases(f))

\* Nesting depth of the running call: 0 = the campaign the user started.
Depth == Len(stack)

\* The locals of the call the user made (the campaign).
RootFrame == IF Depth = 0 THEN frame ELSE stack[1]

\* A batch that ignores the concurrency limit.
BatchHi_Unbounded(f) == NCases(f)

\* A batch of a single case, whatever the limit.
BatchHi_Single(f) == f.lo

\* batched(cases, max_processes): the batch that starts at index lo.
BatchHi(f) == Min(f.lo + f.args.max_processes - 1, NCases(f))
Batch(f) == f.lo .. BatchHi(f)

\* The group (1-based) case i belongs to.
GroupOf(f, i) == ((i - 1) \div f.args.max_processes) + 1

TempDir(f, stem) == <<f.args.output_dir, stem>>

(***************************************************************************)
(* External processes.                                                     *)
(***************************************************************************)
\* What a process can have done when it exits: its exit code, and whether
\* it wrote its raw output file (<stem>.outb beside the .fst file): not at
\* all, a file FASTOutputFile can read ("good"), or one it cannot ("bad").
Outcomes(func) ==
    IF func = "run_fast"
    THEN { [rc |-> 0, wrote |-> "good"],
           [rc |-> 1, wrote |-> "none"],
           [rc |-> 1, wrote |-> "good"],
           [rc |-> 1, wrote |-> "bad"] }
    ELSE { [rc |-> 0, wrote |-> "none"], [rc |-> 1, wrote |-> "none"] }

\* subprocess.Popen(...): a new running process for case `idx` of the
\* running call.
NewProc(f, idx) ==
    [ depth |-> Depth, func |-> f.func, case |-> idx, stem |-> Cases(f)[idx],
      output_dir |-> f.args.output_dir, st |-> "running", rc |-> NoneV, wrote |-> "none",
      batch |-> f.counter - 1 ]

\* Processes launched and not yet waited for.
Unwaited == {p \in 1..Len(procs) : procs[p].st # "waited"}

\* The processes the running call launched for its case idx.
ProcsOf(idx) == {p \in 1..Len(procs) :
                    procs[p].depth = Depth /\ procs[p].case = idx}

\* The process exits (the operating system's step, not the coordinator's).
ProcExit(p) ==
    /\ procs[p].st = "running"
    /\ \E o \in Outcomes(procs[p].func) :
          /\ procs' = [procs EXCEPT ![p].st = "exited", ![p].rc = o.rc,
                                   ![p].wrote = o.wrote]
          /\ LET file == <<procs[p].output_dir, procs[p].stem>>
             IN /\ outb' = IF o.wrote # "none" THEN outb \cup {file} ELSE outb
                /\ corrupt' = IF o.wrote = "bad" THEN corrupt \cup {file}
                              ELSE IF o.wrote = "good" THEN corrupt \ {file}
                              ELSE corrupt
    /\ UNCHANGED <<frame, stack, dirs, parquet, model_dir, conf, hist>>

(***************************************************************************)
(* run_fast: case construction (run_fast.py:131-234).                      *)
(***************************************************************************)
\* run_fast.py:147-155: one inflow file per steady wind speed.
SteadyInflowFiles(speeds) ==
    [i \in 1..Len(speeds) |-> [stem |-> SteadyId(speeds[i]), v0_init |-> speeds[i]]]

\* run_fast.py:160-172: the list of wind files.
WindFilesList(a) ==
    IF a.wf_kind = "list" THEN a.wind_files ELSE Glob(a.wind_files)

\* The initial wind speed read from a wind file (hub value of its first
\* sample); which value is of no consequence to the scheduler.
FileV0(p) == 8000

\* run_fast.py:175-234: one inflow file per wind file.
WindInflowFiles(a) ==
    LET l == WindFilesList(a)
    IN [i \in 1..Len(l) |->
          [stem |-> Stem(l[i]),
           v0_init |-> IF a.initialize_turbine_state THEN FileV0(l[i]) ELSE NoneV]]

\* The exception case construction ends with, "none" if it completes:
\* run_fast.py:112 (version), 117-121 (model files), 170 (no wind input),
\* 225 (unknown wind file).
ConstructError(a) ==
    IF ~a.fast_version_ok THEN "OpenFAST version not supported"
    ELSE IF ~a.model_ok THEN "model file not found"
    ELSE IF a.steady_given THEN "none"
    ELSE IF a.wf_kind # "list" /\ Len(WindFilesList(a)) = 0
         THEN "no wind input found"
    ELSE IF \E i \in 1..Len(WindFilesList(a)) : ~SupportedExt(WindFilesList(a)[i])
         THEN "Unknown wind file"
    ELSE "none"

ConstructRaises(a) == ConstructError(a) # "none"

InflowFiles(a) ==
    IF a.steady_given THEN SteadyInflowFiles(a.steady_wind_speed)
    ELSE WindInflowFiles(a)

\* run_fast.py:154, 229: the inflow files written by case construction:
\* one per case, up to the wind file the loop raises at.
WrittenInflow(a) ==
    LET e == ConstructError(a)
        all == InflowFiles(a)
        n == IF e = "none" THEN Len(all)
             ELSE IF e = "Unknown wind file"
             THEN (CHOOSE i \in 1..Len(all) :
                      /\ ~SupportedExt(WindFilesList(a)[i])
                      /\ \A j \in 1..(i - 1) : SupportedExt(WindFilesList(a)[j])) - 1
             ELSE 0
    IN {<<a.output_dir, all[i].stem>> : i \in 1..n}

\* Case construction that skips every unusable input instead of raising.
Construct_NoCheck ==
    /\ frame.func = "run_fast"
    /\ frame.pc = "start"
    /\ frame' = [frame EXCEPT
          !.inflow_files =
              IF frame.args.steady_given THEN InflowFiles(frame.args)
              ELSE LET l == WindInflowFiles(frame.args)
                       ok == {i \in 1..Len(l) :
                                SupportedExt(WindFilesList(frame.args)[i])}
                   IN [k \in 1..Cardinality(ok) |->
                         l[CHOOSE i \in ok :
                              Cardinality({j \in ok : j < i}) = k - 1]],
          !.pc = "init_state"]
    /\ dat' = dat \cup {<<frame.args.output_dir, frame'.inflow_files[i].stem>> :
                          i \in 1..Len(frame'.inflow_files)}
    /\ UNCHANGED <<stack, procs, dirs, outb, parquet, model_dir, corrupt, fst, hist>>

\* Case construction that also writes each case's .fst file.
Construct_WritesFst ==
    /\ frame.func = "run_fast"
    /\ frame.pc = "start"
    /\ IF ConstructRaises(frame.args)
       THEN frame' = [frame EXCEPT !.pc = "raised",
                                   !.exc = ConstructError(frame.args)]
       ELSE frame' = [frame EXCEPT !.inflow_files = InflowFiles(frame.args),
                                   !.pc = "init_state"]
    /\ dat' = dat \cup WrittenInflow(frame.args)
    /\ fst' = fst \cup WrittenInflow(frame.args)
    /\ UNCHANGED <<stack, procs, dirs, outb, parquet, model_dir, corrupt, hist>>

\* run_fast.py:131-234: case construction.
Construct ==
    /\ frame.func = "run_fast"
    /\ frame.pc = "start"
    /\ IF ConstructRaises(frame.args)
       THEN frame' = [frame EXCEPT !.pc = "raised",
                                   !.exc = ConstructError(frame.args)]
       ELSE frame' = [frame EXCEPT !.inflow_files = InflowFiles(frame.args),
                                   !.pc = "init_state"]
    /\ dat' = dat \cup WrittenInflow(frame.args)
    /\ UNCHANGED <<stack, procs, dirs, outb, parquet, model_dir, corrupt, fst, hist>>

(***************************************************************************)
(* run_fast: find the initial turbine state (run_fast.py:236-254).         *)
(***************************************************************************)
BootDir == "simdriver_temp"
StepWind == [dir |-> BootDir, stem |-> "step_wind", ext |-> "hh"]

\* The nested run_fast initializes the turbine state as its caller does.
BootArgs_Initialized ==
    FastArgs(BootDir, FALSE, <<>>, "list", <<StepWind>>,
             DEFAULT_MAX_PROCESSES, TRUE, FALSE)
    @@ FastEnv(TRUE, TRUE, DefaultOptions)

\* initial_state.py:131-147: the arguments of the nested run_fast.
BootArgs == FastArgs(BootDir, FALSE, <<>>, "list", <<StepWind>>,
                     DEFAULT_MAX_PROCESSES, FALSE, FALSE)
            @@ FastEnv(TRUE, TRUE, DefaultOptions)

\* rmtree("simdriver_temp"): what is left of a set of paths.
OutsideBootDir(S) == {d \in S : d[1] # BootDir}

\* run_fast.py:238-243: no bootstrap needed.
FindInitialState ==
    /\ frame.func = "run_fast"
    /\ frame.pc = "init_state"
    /\ \/ ~frame.args.initialize_turbine_state
       \/ frame.args.custom_initial_state
       \/ cache
    /\ frame' = [frame EXCEPT
          !.init_state = IF ~frame.args.initialize_turbine_state THEN "unbound"
                         ELSE IF frame.args.custom_initial_state THEN "custom"
                         ELSE "cached",
          !.pc = "batch"]
    /\ UNCHANGED <<stack, procs, dirs, outb, parquet, model_dir, corrupt, conf, hist>>

\* The batch loop entered without the bootstrap having run.
BootstrapCall_Skipped ==
    /\ frame.func = "run_fast"
    /\ frame.pc = "init_state"
    /\ frame.args.initialize_turbine_state
    /\ ~frame.args.custom_initial_state
    /\ ~cache
    /\ frame' = [frame EXCEPT !.pc = "batch"]
    /\ UNCHANGED <<stack, procs, dirs, outb, parquet, model_dir, corrupt, conf, hist>>

\* run_fast.py:245-253 and initial_state.py:49-147: the bootstrap is called;
\* it clears simdriver_temp, writes the stepped wind file and calls run_fast.
BootstrapCall ==
    /\ frame.func = "run_fast"
    /\ frame.pc = "init_state"
    /\ frame.args.initialize_turbine_state
    /\ ~frame.args.custom_initial_state
    /\ ~cache
    /\ stack' = Append(stack, [frame EXCEPT !.pc = "in_bootstrap"])
    /\ frame' = NewFrame("run_fast", BootArgs)
    /\ dirs' = OutsideBootDir(dirs)
    /\ outb' = OutsideBootDir(outb)
    /\ parquet' = OutsideBootDir(parquet)
    /\ corrupt' = OutsideBootDir(corrupt)
    /\ dat' = OutsideBootDir(dat)
    /\ fst' = OutsideBootDir(fst)
    /\ UNCHANGED <<procs, model_dir, hist>>

\* initial_state.py:149-188 and run_fast.py:254: the nested run_fast has
\* returned; read its result, average the windows, write the table beside
\* the model, remove simdriver_temp and return to the caller.
\* The table is computed and written nowhere.
TableWritten_Nowhere(options, md) == md

\* initial_state.py:172-176: where the table is written.
TableWritten(options, md) ==
    IF options.initial_state_output THEN md
    ELSE (CacheFile :> "table") @@ md

BootstrapReturn ==
    /\ Depth > 0
    /\ frame.pc = "done"
    /\ LET caller == stack[Len(stack)]
           options == caller.args.initialization_options
       IN IF <<BootDir, Stem(StepWind)>> \in parquet
          THEN /\ frame' = [caller EXCEPT !.init_state = "computed", !.pc = "batch"]
               /\ model_dir' = TableWritten(options, model_dir)
               /\ boots' = boots \cup
                     {[campaign |-> campaign,
                       initial_state_output |-> options.initial_state_output]}
               /\ IF options.retain_temp_files
                  THEN UNCHANGED <<dirs, outb, parquet, corrupt, dat, fst>>
                  ELSE /\ dirs' = OutsideBootDir(dirs)
                       /\ outb' = OutsideBootDir(outb)
                       /\ parquet' = OutsideBootDir(parquet)
                       /\ corrupt' = OutsideBootDir(corrupt)
                       /\ dat' = OutsideBootDir(dat)
                       /\ fst' = OutsideBootDir(fst)
          ELSE /\ frame' = [caller EXCEPT !.pc = "raised",
                                          !.exc = "FileNotFoundError"]
               /\ UNCHANGED <<model_dir, boots, dirs, outb, parquet, corrupt,
                              dat, fst>>
    /\ stack' = SubSeq(stack, 1, Len(stack) - 1)
    /\ UNCHANGED <<procs, campaign>>

(***************************************************************************)
(* run_fast: the batch loop (run_fast.py:256-396).                         *)
(***************************************************************************)
\* run_fast.py:260-268: next batch of the batched() iterator, or leave the
\* loop when the cases are exhausted.
NextBatch ==
    /\ frame.func = "run_fast"
    /\ frame.pc = "batch"
    /\ frame' = IF frame.lo > NCases(frame)
                THEN [frame EXCEPT !.pc = "ingest"]
                ELSE [frame EXCEPT !.temp_dirs = <<>>, !.fst_files = <<>>,
                                   !.counter = @ + 1, !.pc = "prepare"]
    /\ UNCHANGED <<stack, procs, dirs, outb, parquet, model_dir, corrupt, conf, hist>>

\* A lookup that continues the first and the last segment beyond the table.
Interp_Extrapolate(x, xp, fp) ==
    LET n == Len(xp)
        j == IF n = 1 THEN 1
             ELSE IF x < xp[1] THEN 1
             ELSE IF x >= xp[n] THEN n - 1
             ELSE CHOOSE k \in 1..(n - 1) : xp[k] <= x /\ x < xp[k + 1]
    IN IF n = 1 THEN fp[1]
       ELSE fp[j] + ((x - xp[j]) * (fp[j + 1] - fp[j])) \div (xp[j + 1] - xp[j])

\* np.interp(x, xp, fp) for increasing xp: the value of the first or last
\* point outside [xp[1], xp[n]], the line through the two neighbouring
\* points inside (in fixed point, rounded down).
Interp(x, xp, fp) ==
    LET n == Len(xp)
    IN IF x <= xp[1] THEN fp[1]
       ELSE IF x >= xp[n] THEN fp[n]
       ELSE LET j == CHOOSE k \in 1..(n - 1) : xp[k] <= x /\ x < xp[k + 1]
            IN fp[j] + ((x - xp[j]) * (fp[j + 1] - fp[j])) \div (xp[j + 1] - xp[j])

\* The table read from a csv file or returned by the bootstrap: wind speed
\* and rotor speed columns, in 0.001 m/s and 0.001 rpm.
InitStateTable == [ v0 |-> <<3000, 5000, 7000>>,
                    rot_speed |-> <<6000, 8000, 12000>> ]

\* run_fast.py:336: 5 rpm.
DefaultRotSpeed == 5000

\* The rotor speed is left as the model's ElastoDyn file has it.
InitialRotor_Untouched(f, j) == [RotSpeed |-> NoneV, interp |-> FALSE]

\* run_fast.py:314-336: the initial rotor speed written to the case's
\* ElastoDyn file, and whether it was interpolated from the table.
InitialRotor(f, j) ==
    IF f.args.initialize_turbine_state
    THEN [RotSpeed |-> Interp(f.inflow_files[j].v0_init,
                              InitStateTable.v0, InitStateTable.rot_speed),
          interp |-> TRUE]
    ELSE [RotSpeed |-> DefaultRotSpeed, interp |-> FALSE]

\* The module input files are written into the model directory itself.
DatFileRoot_Model(temp_dir) == ModelDir

\* run_fast.py:306-310, 341, 346: the directory the ElastoDyn and ServoDyn
\* files are written to: every module file path of the .fst file is
\* redirected into the case's copy of the model.
DatFileRoot(temp_dir) == temp_dir

\* run_fast.py:271-351: what the working directory of case j holds once it
\* is prepared: rmtree removes a directory found there (leftover), copytree
\* copies the model, and the input files of case j are written into it.
WorkDir(j, leftover) ==
    [model |-> "copy", leftover |-> FALSE, config |-> j]

\* Each case's process is launched as soon as the case is prepared.
Prepare_LaunchAtOnce ==
    /\ frame.func = "run_fast"
    /\ frame.pc = "prepare"
    /\ LET j == frame.lo + Len(frame.temp_dirs)
           stem == Cases(frame)[j]
           temp_dir == TempDir(frame, stem)
       IN /\ dirs' = (dirs \ {temp_dir}) \cup {temp_dir}
          /\ model_dir' = model_dir
          /\ fst' = fst \cup {<<frame.args.output_dir, stem>>}
          /\ frame' = [frame EXCEPT
                !.temp_dirs = Append(@, temp_dir),
                !.fst_files = Append(@, j),
                !.prepared = @ \cup {j},
                !.ed = (j :> InitialRotor(frame, j)) @@ @,
                !.work = (temp_dir :> WorkDir(j, temp_dir \in dirs)) @@ @,
                !.tasks = IF j = frame.lo THEN <<>> ELSE @,
                !.pc = "launch"]
    /\ UNCHANGED <<stack, procs, outb, parquet, corrupt, dat, hist>>

\* run_fast.py:269-351: prepare the working directory and the input files
\* of the next case of the batch: remove a stale directory, copy the model,
\* write the ElastoDyn, ServoDyn and .fst files.
Prepare ==
    /\ frame.func = "run_fast"
    /\ frame.pc = "prepare"
    /\ LET j == frame.lo + Len(frame.temp_dirs)
           stem == Cases(frame)[j]
           temp_dir == TempDir(frame, stem)
       IN /\ dirs' = (dirs \ {temp_dir}) \cup {temp_dir}
          /\ model_dir' = IF DatFileRoot(temp_dir) = ModelDir
                          THEN [f \in DOMAIN model_dir |->
                                  IF f \in {"ElastoDyn.dat", "ServoDyn.dat"}
                                  THEN "rewritten" ELSE model_dir[f]]
                          ELSE model_dir
          /\ fst' = fst \cup {<<frame.args.output_dir, stem>>}
          /\ frame' = [frame EXCEPT
                !.temp_dirs = Append(@, temp_dir),
                !.fst_files = Append(@, j),
                !.prepared = @ \cup {j},
                !.ed = (j :> InitialRotor(frame, j)) @@ @,
                !.work = (temp_dir :> WorkDir(j, temp_dir \in dirs)) @@ @,
                !.tasks = IF j = BatchHi(frame) THEN <<>> ELSE @,
                !.pc = IF j = BatchHi(frame) THEN "launch" ELSE "prepare"]
    /\ UNCHANGED <<stack, procs, outb, parquet, corrupt, dat, hist>>

\* run_fast.py:357-372: launch the process of the next .fst file of the
\* batch; after the last one, error = False.
Launch ==
    /\ frame.func = "run_fast"
    /\ frame.pc = "launch"
    /\ LET j == frame.fst_files[Len(frame.tasks) + 1]
           last == Len(frame.tasks) + 1 = Len(frame.fst_files)
       IN /\ procs' = Append(procs, NewProc(frame, j))
          /\ frame' = [frame EXCEPT
                !.tasks = Append(@, Len(procs) + 1),
                !.k = IF last THEN 0 ELSE @,
                !.error = IF last THEN "false" ELSE @,
                !.pc = IF last THEN "wait" ELSE "launch"]
    /\ UNCHANGED <<stack, dirs, outb, parquet, model_dir, corrupt, conf, hist>>

\* A wait that returns without the process having exited (a poll).
Wait_NoBlock ==
    /\ frame.func = "run_fast"
    /\ frame.pc = "wait"
    /\ LET p == frame.tasks[frame.k + 1]
       IN /\ procs' = [procs EXCEPT ![p].st = "waited"]
          /\ frame' = [frame EXCEPT
                !.k = @ + 1,
                !.error = IF procs[p].rc > 0 THEN "true" ELSE @,
                !.pc = IF frame.k + 1 = Len(frame.tasks) THEN "cleanup" ELSE "wait"]
    /\ UNCHANGED <<stack, dirs, outb, parquet, model_dir, corrupt, conf, hist>>

\* run_fast.py:373-377: task.wait() on the next task of the batch, in
\* launch order; blocks until that process has exited.
Wait ==
    /\ frame.func = "run_fast"
    /\ frame.pc = "wait"
    /\ LET p == frame.tasks[frame.k + 1]
       IN /\ procs[p].st = "exited"
          /\ procs' = [procs EXCEPT ![p].st = "waited"]
          /\ frame' = [frame EXCEPT
                !.k = @ + 1,
                !.error = IF procs[p].rc # 0 THEN "true" ELSE @,
                !.pc = IF frame.k + 1 = Len(frame.tasks) THEN "cleanup" ELSE "wait"]
    /\ UNCHANGED <<stack, dirs, outb, parquet, model_dir, corrupt, conf, hist>>

\* A failed batch aborts the campaign.
Cleanup_RaiseOnError ==
    /\ frame.func = "run_fast"
    /\ frame.pc = "cleanup"
    /\ dirs' = IF frame.error = "false" THEN dirs \ Range(frame.temp_dirs) ELSE dirs
    /\ frame' = IF frame.error = "false"
                THEN [frame EXCEPT !.lo = BatchHi(frame) + 1, !.pc = "batch"]
                ELSE [frame EXCEPT !.pc = "raised"]
    /\ UNCHANGED <<stack, procs, outb, parquet, model_dir, corrupt, conf, hist>>

\* The working directories are never removed.
Cleanup_Never ==
    /\ frame.func = "run_fast"
    /\ frame.pc = "cleanup"
    /\ frame' = [frame EXCEPT !.lo = BatchHi(frame) + 1, !.pc = "batch"]
    /\ UNCHANGED <<stack, procs, dirs, outb, parquet, model_dir, corrupt, conf, hist>>

\* The working directories are removed whatever the exit codes.
Cleanup_Always ==
    /\ frame.func = "run_fast"
    /\ frame.pc = "cleanup"
    /\ dirs' = dirs \ Range(frame.temp_dirs)
    /\ frame' = [frame EXCEPT !.lo = BatchHi(frame) + 1, !.pc = "batch"]
    /\ UNCHANGED <<stack, procs, outb, parquet, model_dir, corrupt, conf, hist>>

\* run_fast.py:387-396: remove the batch's working directories unless a
\* process of the batch failed; then on to the next batch.
Cleanup ==
    /\ frame.func = "run_fast"
    /\ frame.pc = "cleanup"
    /\ dirs' = IF frame.error = "false" THEN dirs \ Range(frame.temp_dirs) ELSE dirs
    /\ frame' = [frame EXCEPT !.lo = BatchHi(frame) + 1, !.pc = "batch"]
    /\ UNCHANGED <<stack, procs, outb, parquet, model_dir, corrupt, conf, hist>>

(***************************************************************************)
(* run_fast: output processing and the final message                       *)
(* (run_fast.py:398-423).                                                  *)
(***************************************************************************)
\* Ingestion that swallows a failure without recording the case.
Ingest_Silent ==
    /\ frame.func = "run_fast"
    /\ frame.pc = "ingest"
    /\ frame.ing <= NCases(frame)
    /\ LET stem == Cases(frame)[frame.ing]
           file == <<frame.args.output_dir, stem>>
       IN IF file \in outb /\ file \notin corrupt
          THEN /\ parquet' = parquet \cup {file}
               /\ frame' = [frame EXCEPT !.ing = @ + 1,
                                         !.converted = @ \cup {frame.ing}]
          ELSE /\ parquet' = parquet
               /\ frame' = [frame EXCEPT !.ing = @ + 1]
    /\ UNCHANGED <<stack, procs, dirs, outb, model_dir, corrupt, conf, hist>>

\* run_fast.py:402-412: convert the next case's raw output; a failure is
\* caught and the case's stem is appended to failures.
Ingest ==
    /\ frame.func = "run_fast"
    /\ frame.pc = "ingest"
    /\ frame.ing <= NCases(frame)
    /\ LET stem == Cases(frame)[frame.ing]
           file == <<frame.args.output_dir, stem>>
       IN IF file \in outb /\ file \notin corrupt
          THEN /\ parquet' = parquet \cup {file}
               /\ frame' = [frame EXCEPT !.ing = @ + 1,
                                         !.converted = @ \cup {frame.ing}]
          ELSE /\ parquet' = parquet
               /\ frame' = [frame EXCEPT !.ing = @ + 1,
                                         !.failures = Append(@, stem)]
    /\ UNCHANGED <<stack, procs, dirs, outb, model_dir, corrupt, conf, hist>>

\* run_fast.py:415: the number printed in "processing of N cases failed:".
FailureCount(f) == Len(f.inflow_files)

\* run_fast.py:414-423: the completion message.  `error` is only assigned
\* inside the batch loop.
Message ==
    /\ frame.func = "run_fast"
    /\ frame.pc = "ingest"
    /\ frame.ing > NCases(frame)
    /\ LET printed == IF Len(frame.failures) > 0
                      THEN [n |-> FailureCount(frame), ids |-> frame.failures]
                      ELSE frame.summary
       IN frame' = IF frame.error = "unbound"
                   THEN [frame EXCEPT !.summary = printed, !.pc = "raised",
                                      !.exc = "UnboundLocalError"]
                   ELSE [frame EXCEPT
                           !.summary = printed,
                           !.message = IF frame.error = "true" THEN "errors"
                                       ELSE "success",
                           !.pc = "done"]
    /\ UNCHANGED <<stack, procs, dirs, outb, parquet, model_dir, corrupt, conf, hist>>

(***************************************************************************)
(* run_turbsim (run_turbsim.py:98-180).                                    *)
(***************************************************************************)
TurbsimArgs(ws, tis, given, wt, reps, first, N) ==
    [ output_dir |-> "wind",
      wind_speed |-> ws, turbulence_intensity |-> tis,
      wind_and_ti_given |-> given, wind_and_ti |-> wt,
      wind_fields_per_case |-> reps, first_wind_field_number |-> first,
      max_processes |-> N ]

\* list(itertools.product(wind_speed, turbulence_intensity))
Product(ws, tis) ==
    [n \in 1..(Len(ws) * Len(tis)) |->
        <<ws[((n - 1) \div Len(tis)) + 1], tis[((n - 1) % Len(tis)) + 1]>>]

\* run_turbsim.py:108-109
WindAndTi(a) ==
    IF a.wind_and_ti_given THEN a.wind_and_ti
    ELSE Product(a.wind_speed, a.turbulence_intensity)

\* run_turbsim.py:111-134: one input file per replicate number and per
\* (wind speed, turbulence intensity) pair, replicate number outermost.
InpFiles(a) ==
    LET wt == WindAndTi(a)
        reps == IF a.wind_fields_per_case > 0 THEN a.wind_fields_per_case ELSE 0
    IN [n \in 1..(reps * Len(wt)) |->
          LET i == a.first_wind_field_number + ((n - 1) \div Len(wt))
              c == wt[((n - 1) % Len(wt)) + 1]
          IN TurbsimId(c[1], c[2], i, a.wind_fields_per_case,
                       a.first_wind_field_number)]

\* run_turbsim.py:77-84: the output types the function accepts.
OutputTypes == {"bts", "wnd"}

TS_Construct ==
    /\ frame.func = "run_turbsim"
    /\ frame.pc = "start"
    /\ IF frame.args.output_type \notin OutputTypes
       THEN frame' = [frame EXCEPT !.pc = "raised", !.exc = "Unknown output_type"]
       ELSE frame' = [frame EXCEPT !.inp_files = InpFiles(frame.args),
                                   !.pc = "batch"]
    /\ UNCHANGED <<stack, procs, dirs, outb, parquet, model_dir, corrupt, conf, hist>>

\* run_turbsim.py:138-145: next batch, or leave the loop.
TS_NextBatch ==
    /\ frame.func = "run_turbsim"
    /\ frame.pc = "batch"
    /\ frame' = IF frame.lo > NCases(frame)
                THEN [frame EXCEPT !.pc = "message"]
                ELSE [frame EXCEPT !.tasks = <<>>, !.counter = @ + 1,
                                   !.pc = "launch"]
    /\ UNCHANGED <<stack, procs, dirs, outb, parquet, model_dir, corrupt, conf, hist>>

\* run_turbsim.py:146-161: launch the process of the next input file of the
\* batch; after the last one, error = False.
TS_Launch ==
    /\ frame.func = "run_turbsim"
    /\ frame.pc = "launch"
    /\ LET j == frame.lo + Len(frame.tasks)
           last == j = BatchHi(frame)
       IN /\ procs' = Append(procs, NewProc(frame, j))
          /\ frame' = [frame EXCEPT
                !.tasks = Append(@, Len(procs) + 1),
                !.k = IF last THEN 0 ELSE @,
                !.error = IF last THEN "false" ELSE @,
                !.pc = IF last THEN "wait" ELSE "launch"]
    /\ UNCHANGED <<stack, dirs, outb, parquet, model_dir, corrupt, conf, hist>>

\* run_turbsim.py:162-166: task.wait() on the next task of the batch.
TS_Wait ==
    /\ frame.func = "run_turbsim"
    /\ frame.pc = "wait"
    /\ LET p == frame.tasks[frame.k + 1]
           last == frame.k + 1 = Len(frame.tasks)
       IN /\ procs[p].st = "exited"
          /\ procs' = [procs EXCEPT ![p].st = "waited"]
          /\ frame' = [frame EXCEPT
                !.k = @ + 1,
                !.error = IF procs[p].rc # 0 THEN "true" ELSE @,
                !.lo = IF last THEN BatchHi(frame) + 1 ELSE @,
                !.pc = IF last THEN "batch" ELSE "wait"]
    /\ UNCHANGED <<stack, dirs, outb, parquet, model_dir, corrupt, conf, hist>>

\* run_turbsim.py:176-180: the completion message.
TS_Message ==
    /\ frame.func = "run_turbsim"
    /\ frame.pc = "message"
    /\ frame' = IF frame.error = "unbound"
                THEN [frame EXCEPT !.pc = "raised"]
                ELSE [frame EXCEPT
                        !.message = IF frame.error = "true" THEN "errors" ELSE "success",
                        !.pc = "done"]
    /\ UNCHANGED <<stack, procs, dirs, outb, parquet, model_dir, corrupt, conf, hist>>

(***************************************************************************)
(* The calls the model starts from.                                        *)
(***************************************************************************)
OutDir == "out"
OutDirFiles == { [dir |-> OutDir, stem |-> "a", ext |-> "bts"] }

\* <<initialize_turbine_state, custom_initial_state given, cached table exists>>
InitModes == { <<FALSE, FALSE, FALSE>>, <<FALSE, FALSE, TRUE>>,
               <<TRUE, TRUE, FALSE>>, <<TRUE, FALSE, TRUE>>,
               <<TRUE, FALSE, FALSE>> }

\* The modes every wind input is run in: no initial state at all, and the
\* bootstrap; a custom or cached table is run with the small calls.
FullModes == { <<FALSE, FALSE, FALSE>>, <<TRUE, FALSE, FALSE>> }

\* A sweep of steady wind speeds, given in ascending order.
Sweeps(n) ==
    { s \in SeqsUpTo(Speeds, n) : \A i \in 1..(Len(s) - 1) : s[i] <= s[i + 1] }

FastWindInputs ==
    { <<TRUE, s, "none", {}>> : s \in Sweeps(MaxCases) }
    \cup { <<FALSE, <<>>, "list", l>> : l \in SeqsUpTo(WindPaths, MaxWindList) }
    \cup { <<FALSE, <<>>, "dir", D>> : D \in SUBSET DirFiles }
    \cup { <<FALSE, <<>>, "none", D>> : D \in SUBSET OutDirFiles }

TurbsimCalls ==
    { TurbsimArgs(ws, tis, FALSE, <<>>, reps, first, N) :
        ws \in SeqsUpTo(Speeds, 2) \ {<<>>},
        tis \in SeqsUpTo(Intensities, 2) \ {<<>>},
        reps \in 0..2, first \in 1..2, N \in 1..MaxProc }
    \cup
    { TurbsimArgs(<<>>, <<>>, TRUE, wt, reps, first, N) :
        wt \in SeqsUpTo(Speeds \X Intensities, 2),
        reps \in 0..2, first \in 1..2, N \in 1..MaxProc }

TurbsimInputs ==
    { a @@ [output_type |-> t] :
        a \in {c \in TurbsimCalls : Len(InpFiles(c)) <= MaxCases},
        t \in {"bts", "txt"} }

\* The environment of a run_fast call: an unsupported fast_version, a
\* missing model file, or a good model with some initialization_options
\* (which only matter to a call that runs the bootstrap).
FastEnvs(m) ==
    { FastEnv(FALSE, TRUE, DefaultOptions), FastEnv(TRUE, FALSE, DefaultOptions) }
    \cup { FastEnv(TRUE, TRUE, o) :
             o \in IF m[1] /\ ~m[2] THEN AllOptions ELSE {DefaultOptions} }

\* A call with one steady case or one wind file, run one at a time.
SmallCall(a) ==
    /\ a.max_processes = 1
    /\ \/ a.steady_given /\ a.steady_wind_speed = <<5000>>
       \/ /\ a.wf_kind = "list"
          /\ a.wind_files = <<[dir |-> "w", stem |-> "a", ext |-> "bts"]>>

\* The run_fast calls a campaign can start with: every wind input with the
\* default initialization_options, the small calls with every option.
FastCalls ==
    { a \in UNION { { FastArgs(OutDir, w[1], w[2], w[3], w[4], N, m[1], m[2]) @@ e :
                        w \in FastWindInputs, N \in 1..MaxProc, e \in FastEnvs(m) } :
                    m \in InitModes } :
        a.initialization_options = DefaultOptions \/ SmallCall(a) }

\* The calls of a later campaign on the same model: one steady case or one
\* wind file, with every way of asking for the initial state.
LaterCalls ==
    { a \in FastCalls : SmallCall(a) /\ a.fast_version_ok /\ a.model_ok }

\* The model directory before the first campaign, with or without a table
\* persisted by an earlier run.
ModelDirs ==
    { [f \in ModelFiles |-> "orig"],
      [f \in ModelFiles \cup {CacheFile} |-> "orig"] }

Init ==
    /\ stack = <<>>
    /\ procs = <<>>
    /\ dirs = {}
    /\ outb = {}
    /\ parquet = {}
    /\ corrupt = {}
    /\ dat = {}
    /\ fst = {}
    /\ boots = {}
    /\ campaign = 1
    /\ \/ \E a \in FastCalls, md \in ModelDirs :
             /\ <<a.initialize_turbine_state, a.custom_initial_state,
                   CacheFile \in DOMAIN md>>
                   \in IF SmallCall(a) THEN InitModes ELSE FullModes
             /\ frame = NewFrame("run_fast", a)
             /\ model_dir = md
       \/ \E a \in TurbsimInputs :
             /\ frame = NewFrame("run_turbsim", a)
             /\ model_dir = [f \in ModelFiles |-> "orig"]

\* The user starts the next campaign on the same model once the previous
\* call has returned or raised: the files on disk stay, the process table
\* of the new call is empty.
NewCampaign ==
    /\ Depth = 0
    /\ frame.func = "run_fast"
    /\ frame.pc \in {"done", "raised"}
    /\ campaign < MaxCampaigns
    /\ campaign' = campaign + 1
    /\ \E a \in LaterCalls : frame' = NewFrame("run_fast", a)
    /\ procs' = <<>>
    /\ UNCHANGED <<stack, dirs, outb, parquet, model_dir, corrupt, conf, boots>>

Next ==
    \/ Construct
    \/ FindInitialState
    \/ BootstrapCall
    \/ BootstrapReturn
    \/ NextBatch
    \/ Prepare
    \/ Launch
    \/ Wait
    \/ Cleanup
    \/ Ingest
    \/ Message
    \/ TS_Construct
    \/ TS_NextBatch
    \/ TS_Launch
    \/ TS_Wait
    \/ TS_Message
    \/ NewCampaign
    \/ \E p \in 1..Len(procs) : ProcExit(p)

Spec == Init /\ [][Next]_vars

(***************************************************************************)
(* The campaign on a machine where starting a process can fail.            *)
(***************************************************************************)
\* run_fast.py:357-365: open(stdout, "w") or subprocess.Popen raises
\* OSError.  Nothing catches it: it leaves run_fast and, from the nested
\* call, initial_state and the calling run_fast as well.
LaunchFails ==
    /\ frame.func = "run_fast"
    /\ frame.pc = "launch"
    /\ frame' = [RootFrame EXCEPT !.pc = "raised", !.exc = "OSError"]
    /\ stack' = <<>>
    /\ UNCHANGED <<procs, dirs, outb, parquet, model_dir, corrupt, conf, hist>>

\* run_turbsim.py:146-158: the same in run_turbsim.
TS_LaunchFails ==
    /\ frame.func = "run_turbsim"
    /\ frame.pc = "launch"
    /\ frame' = [frame EXCEPT !.pc = "raised", !.exc = "OSError"]
    /\ UNCHANGED <<stack, procs, dirs, outb, parquet, model_dir, corrupt, conf, hist>>

FaultNext == Next \/ LaunchFails \/ TS_LaunchFails

FaultSpec == Init /\ [][FaultNext]_vars

(***************************************************************************)
(* The table lookup on its own: np.interp applied to a table and a wind    *)
(* speed (run_fast.py:315-333).                                            *)
(***************************************************************************)
MaxRows == 3

TableKeys == {3000, 5000, 7000}
TableValues == {0, 6000, 9000}
LookupSpeeds == {1000, 3000, 4000, 4500, 5000, 6000, 7000, 9000}

\* Tables with strictly increasing wind speeds.
Tables ==
    { t \in UNION { [v0 : [1..m -> TableKeys], val : [1..m -> TableValues]] :
                      m \in 1..MaxRows } :
        \A i \in 1..(Len(t.v0) - 1) : t.v0[i] < t.v0[i + 1] }

\* No process, no file: the state around a function applied on its own.
NothingElse ==
    /\ stack = <<>>
    /\ procs = <<>>
    /\ dirs = {} /\ outb = {} /\ parquet = {} /\ corrupt = {}
    /\ dat = {} /\ fst = {}
    /\ boots = {}
    /\ campaign = 1
    /\ model_dir = [f \in ModelFiles |-> "orig"]

NothingElseChanges ==
    UNCHANGED <<stack, procs, dirs, outb, parquet, model_dir, corrupt, conf, hist>>

InterpInit ==
    /\ NothingElse
    /\ \E t \in Tables, x \in LookupSpeeds :
          frame = [func |-> "np.interp", pc |-> "start",
                   x |-> x, xp |-> t.v0, fp |-> t.val, result |-> NoneV]

InterpCall ==
    /\ frame.func = "np.interp"
    /\ frame.pc = "start"
    /\ frame' = [frame EXCEPT !.result = Interp(frame.x, frame.xp, frame.fp),
                               !.pc = "done"]
    /\ NothingElseChanges

InterpSpec == InterpInit /\ [][InterpCall]_vars

(***************************************************************************)
(* The bootstrap's wind profile and analysis windows on their own          *)
(* (initial_state.py:52-99, 135, 152-170).  Times are in 0.01 s, speeds in *)
(* 0.001 m/s, analyzed_fraction in percent.                                *)
(***************************************************************************)
MaxWindSteps == 3

\* round(a / b) of Python: to the nearest integer, ties to the even one.
RoundDiv(a, b) ==
    LET q == a \div b
        r == a % b
    IN IF 2 * r < b THEN q
       ELSE IF 2 * r > b THEN q + 1
       ELSE IF q % 2 = 0 THEN q ELSE q + 1

\* np.arange(min_speed, max_speed + step_size, step_size)
WindSteps(a) ==
    LET n == Ceil(a.max_speed + a.step_size - a.min_speed, a.step_size)
    IN [k \in 1..(IF n > 0 THEN n ELSE 0) |-> a.min_speed + (k - 1) * a.step_size]

Last(seq) == seq[Len(seq)]

ProfileArgs ==
    [ min_speed : {3000},
      max_speed : {3000 + 2000 * k : k \in 0..(MaxWindSteps - 1)},
      step_size : {2000},
      startup_time : {30000, 2000},
      rise_time : {3000, 2000},
      time_at_speed : {12000, 4000},
      analyzed_fraction : {25, 50},
      wind_time_step : {1000, 700, 3000} ]

ProfileInit ==
    /\ NothingElse
    /\ \E a \in ProfileArgs :
          frame = [func |-> "initial_state", pc |-> "profile", args |-> a,
                   i |-> 0, startup |-> TRUE,
                   time |-> <<0>>, speed |-> <<0>>, windows |-> <<>>,
                   marks |-> <<>>, time_span |-> NoneV, table |-> <<>>]

\* The table without the row of the startup step.
TableRows_NoStartup(windows) ==
    [i \in 1..(Len(windows) - 1) |-> [v0 |-> windows[i + 1].v0]]

\* initial_state.py:152-170: one row per window, keyed by the window's
\* wind speed (the other columns are means of the simulation's output).
TableRows(windows) == [i \in 1..Len(windows) |-> [v0 |-> windows[i].v0]]

\* initial_state.py:57-99: one pass of the loop over the wind steps: the
\* step's analysis window, its startup or ramp samples, its hold samples.
ProfileStep ==
    /\ frame.func = "initial_state"
    /\ frame.pc = "profile"
    /\ frame.i < Len(WindSteps(frame.args))
    /\ LET a == frame.args
           dt == a.wind_time_step
           wind_step == WindSteps(a)[frame.i + 1]
           v_0 == Last(frame.speed)
           t == Last(frame.time)
           kept == (a.time_at_speed * (100 - a.analyzed_fraction)) \div 100
           window ==
               IF frame.startup
               THEN [v0 |-> wind_step,
                     start |-> a.startup_time + kept,
                     end |-> a.startup_time + a.time_at_speed]
               ELSE [v0 |-> wind_step,
                     start |-> t + a.rise_time + kept,
                     end |-> t + a.rise_time + a.time_at_speed]
           n1 == IF frame.startup THEN RoundDiv(a.startup_time, dt)
                 ELSE RoundDiv(a.rise_time, dt)
           n2 == RoundDiv(a.time_at_speed, dt)
           lead == [k \in 1..n1 |->
                      IF frame.startup THEN wind_step
                      ELSE v_0 + (k * dt * (wind_step - v_0)) \div a.rise_time]
       IN frame' = [frame EXCEPT
             !.windows = Append(@, window),
             !.time = @ \o [k \in 1..(n1 + n2) |-> t + k * dt],
             !.speed = @ \o lead \o [k \in 1..n2 |-> wind_step],
             !.marks = Append(@, [first |-> Len(frame.time) + 1,
                                  hold |-> Len(frame.time) + n1 + 1,
                                  last |-> Len(frame.time) + n1 + n2,
                                  from |-> v_0]),
             !.startup = FALSE,
             !.i = @ + 1]
    /\ NothingElseChanges

\* initial_state.py:131-170: the simulation is run over time[-1] and one
\* table row is computed per window.
Analyze ==
    /\ frame.func = "initial_state"
    /\ frame.pc = "profile"
    /\ frame.i = Len(WindSteps(frame.args))
    /\ frame' = [frame EXCEPT !.time_span = Last(frame.time),
                               !.table = TableRows(frame.windows),
                               !.pc = "done"]
    /\ NothingElseChanges

ProfileNext == ProfileStep \/ Analyze

ProfileSpec == ProfileInit /\ [][ProfileNext]_vars

(***************************************************************************)
(* The names one case's files get on the way from its generation to its    *)
(* result artifact (run_turbsim.py:125-134, run_fast.py:152-154, 228-229,  *)
(* 349-350, 405-409).  A file is [dir, stem, ext], its name <stem>.<ext>;  *)
(* the stem is the formatted id, which holds no "." after replace().       *)
(***************************************************************************)
File(dir, stem, ext) == [dir |-> dir, stem |-> stem, ext |-> ext]

\* The stem keeps the extension.
PathStem_WithExt(f) == f.stem \o <<f.ext>>

\* Path(f).stem: the name without its last suffix.
PathStem(f) == f.stem

\* Path(f).with_suffix(ext); also the root name an executable derives its
\* output file from.
WithSuffix(f, ext) == File(f.dir, PathStem(f), ext)

PipelineSpeeds == Speeds \cup {15000}

\* <<wind_fields_per_case, first_wind_field_number, i>>
Replicates == { <<r, f, i>> \in (1..2) \X (1..2) \X (1..3) : f <= i /\ i < f + r }

PipelineInit ==
    /\ NothingElse
    /\ \/ \E u \in PipelineSpeeds :
             frame = [func |-> "pipeline", pc |-> "run_fast", kind |-> "steady",
                      u |-> u, ti |-> 0, rep |-> <<1, 1, 1>>, output_type |-> "none",
                      id |-> SteadyId(u), wind_file |-> File("", <<>>, ""),
                      inflow |-> File("", <<>>, ""), outb |-> File("", <<>>, ""),
                      artifact |-> File("", <<>>, "")]
       \/ \E u \in PipelineSpeeds, ti \in Intensities, r \in Replicates,
             t \in OutputTypes :
             frame = [func |-> "pipeline", pc |-> "run_turbsim", kind |-> "turbsim",
                      u |-> u, ti |-> ti, rep |-> r, output_type |-> t,
                      id |-> TurbsimId(u, ti, r[3], r[1], r[2]),
                      wind_file |-> File("", <<>>, ""),
                      inflow |-> File("", <<>>, ""), outb |-> File("", <<>>, ""),
                      artifact |-> File("", <<>>, "")]

\* run_turbsim.py:132-156: the .inp file is written and TurbSim run on it;
\* TurbSim writes the wind field beside it, with the same root name.
TurbSimRun ==
    /\ frame.func = "pipeline"
    /\ frame.pc = "run_turbsim"
    /\ frame' = [frame EXCEPT
          !.wind_file = WithSuffix(File("wind", frame.id, "inp"), frame.output_type),
          !.pc = "run_fast"]
    /\ NothingElseChanges

\* run_fast.py:152-154, 228-229: the case's inflow file.
NameCase ==
    /\ frame.func = "pipeline"
    /\ frame.pc = "run_fast"
    /\ frame' = [frame EXCEPT
          !.inflow = IF frame.kind = "steady"
                     THEN File(OutDir, SteadyId(frame.u), "dat")
                     ELSE File(OutDir, PathStem(frame.wind_file), "dat"),
          !.pc = "simulate"]
    /\ NothingElseChanges

\* run_fast.py:349-369: the .fst file is written and OpenFAST run on it;
\* OpenFAST writes its binary output beside it, with the same root name.
Simulate ==
    /\ frame.func = "pipeline"
    /\ frame.pc = "simulate"
    /\ frame' = [frame EXCEPT
          !.outb = WithSuffix(File(OutDir, PathStem(frame.inflow), "fst"), "outb"),
          !.pc = "ingest"]
    /\ NothingElseChanges

\* run_fast.py:405-410: the raw output is looked up by the inflow file's
\* stem and the artifact is written under the same stem.
IngestCase ==
    /\ frame.func = "pipeline"
    /\ frame.pc = "ingest"
    /\ frame' = [frame EXCEPT
          !.artifact = IF File(OutDir, PathStem(frame.inflow), "outb") = frame.outb
                       THEN File(OutDir, PathStem(frame.inflow), "parquet")
                       ELSE @,
          !.pc = "done"]
    /\ NothingElseChanges

PipelineNext == TurbSimRun \/ NameCase \/ Simulate \/ IngestCase

PipelineSpec == PipelineInit /\ [][PipelineNext]_vars

(***************************************************************************)
(* The columns of one case's result (run_fast.py:16-45, 338-346, 405-409). *)
(* A raw column <name>_[<unit>] is the pair <<name, unit>>, a canonical    *)
(* column the 1-tuple of its name.                                         *)
(***************************************************************************)
DEFAULT_ELASTODYN_OUT ==
    << "RotSpeed", "BldPitch1", "RotTorq", "RootMEdg1", "RootMFlp1", "RootMEdg2",
       "RootMFlp2", "RootMEdg3", "RootMFlp3", "TwrBsMxt", "TwrBsMyt" >>

DEFAULT_SERVODYN_OUT == << "GenPwr" >>

RENAME ==
    (<<"Time", "s">> :> "time") @@ (<<"Wind1VelX", "m/s">> :> "v0") @@
    (<<"RotSpeed", "rpm">> :> "rot_speed") @@ (<<"RotTorq", "kN-m">> :> "rot_torque") @@
    (<<"GenPwr", "kW">> :> "gen_power") @@ (<<"BldPitch1", "deg">> :> "pitch") @@
    (<<"RootMEdg1", "kN-m">> :> "M_b1_e") @@ (<<"RootMFlp1", "kN-m">> :> "M_b1_f") @@
    (<<"RootMEdg2", "kN-m">> :> "M_b2_e") @@ (<<"RootMFlp2", "kN-m">> :> "M_b2_f") @@
    (<<"RootMEdg3", "kN-m">> :> "M_b3_e") @@ (<<"RootMFlp3", "kN-m">> :> "M_b3_f") @@
    (<<"TwrBsMyt", "kN-m">> :> "M_tower_fa") @@ (<<"TwrBsMxt", "kN-m">> :> "M_tower_ss")

\* The unit a channel is written with.
Unit(c) ==
    CASE c = "Time" -> "s"
      [] c = "Wind1VelX" -> "m/s"
      [] c = "RotSpeed" -> "rpm"
      [] c = "BldPitch1" -> "deg"
      [] c = "GenPwr" -> "kW"
      [] c = "TipDxc1" -> "m"
      [] OTHER -> "kN-m"

MaxExtra == 2
ElastoDynExtra == { "RotSpeed", "TipDxc1", "YawBrMzp" }
ServoDynExtra == { "GenPwr", "GenTq" }

Unique(seq) == \A a, b \in DOMAIN seq : seq[a] = seq[b] => a = b

RECURSIVE Dedup(_)
Dedup(seq) ==
    IF seq = <<>> THEN <<>>
    ELSE LET front == Dedup(SubSeq(seq, 1, Len(seq) - 1))
         IN IF Last(seq) \in Range(front) THEN front ELSE Append(front, Last(seq))

\* DataFrame.rename(columns=RENAME): columns that are no key are kept.
Rename(cols) ==
    [ k \in DOMAIN cols |-> IF cols[k] \in DOMAIN RENAME THEN << RENAME[cols[k]] >>
                                                         ELSE cols[k] ]

\* A file that does not exist.
NoTable == [columns |-> <<>>, rows |-> <<>>]

\* The time steps of the raw output.
Rows == << "t0", "t1" >>

\* to_parquet appends to the file it finds.
ToParquet_Append(old, table) ==
    [columns |-> table.columns, rows |-> old.rows \o table.rows]

\* DataFrame.to_parquet(path): the file holds the table, whatever it held.
ToParquet(old, table) == table

\* duplicates: whether the parquet engine of the installation writes a
\* table with repeated column names (TRUE) or raises (FALSE).
ColumnsInit ==
    /\ NothingElse
    /\ \E ed \in UNION { [1..n -> ElastoDynExtra] : n \in 0..MaxExtra },
          sd \in UNION { [1..n -> ServoDynExtra] : n \in 0..1 },
          dup \in BOOLEAN :
          frame = [func |-> "columns", pc |-> "prepare", elastodyn_out |-> ed,
                   servodyn_out |-> sd, duplicates |-> dup, OutList |-> <<>>,
                   raw |-> NoTable, written |-> NoTable, columns |-> <<>>,
                   pass |-> 1, artifact |-> "none", parquet |-> NoTable,
                   first |-> NoTable]

\* run_fast.py:338-346: the channels requested from ElastoDyn and ServoDyn.
SetOutList ==
    /\ frame.func = "columns"
    /\ frame.pc = "prepare"
    /\ frame' = [frame EXCEPT
          !.OutList = (DEFAULT_ELASTODYN_OUT \o frame.elastodyn_out)
                      \o (DEFAULT_SERVODYN_OUT \o frame.servodyn_out),
          !.pc = "simulate"]
    /\ NothingElseChanges

\* The raw output: time, the wind speed channel of the model, and the
\* requested channels, a repeated request written once or as often as asked.
WriteRawOutput ==
    /\ frame.func = "columns"
    /\ frame.pc = "simulate"
    /\ \E requested \in { frame.OutList, Dedup(frame.OutList) } :
          LET file == [columns |-> [ k \in 1..(Len(requested) + 2) |->
                                      LET c == (<< "Time", "Wind1VelX" >>
                                                \o requested)[k]
                                      IN << c, Unit(c) >> ],
                       rows |-> Rows]
          IN frame' = [frame EXCEPT !.raw = file, !.written = file, !.pc = "ingest"]
    /\ NothingElseChanges

\* run_fast.py:405-408: toDataFrame().rename(columns=RENAME).
RenameColumns ==
    /\ frame.func = "columns"
    /\ frame.pc = "ingest"
    /\ frame' = [frame EXCEPT !.columns = Rename(frame.raw.columns),
                               !.pc = "renamed"]
    /\ NothingElseChanges

\* run_fast.py:408-412: to_parquet writes the table or raises, and the case
\* is then listed as failed.
WriteArtifact ==
    /\ frame.func = "columns"
    /\ frame.pc = "renamed"
    /\ LET table == [columns |-> frame.columns, rows |-> frame.raw.rows]
           file == IF Unique(frame.columns) \/ frame.duplicates
                   THEN ToParquet(frame.parquet, table)
                   ELSE frame.parquet
       IN frame' = [frame EXCEPT
             !.artifact = IF Unique(frame.columns) \/ frame.duplicates
                          THEN "written" ELSE "failed",
             !.parquet = file,
             !.first = IF frame.pass = 1 THEN file ELSE @,
             !.pc = "done"]
    /\ NothingElseChanges

\* run_fast.py:402-412 once more, on the raw output as it is.
IngestAgain ==
    /\ frame.func = "columns"
    /\ frame.pc = "done"
    /\ frame.pass = 1
    /\ frame' = [frame EXCEPT !.pass = 2, !.pc = "ingest"]
    /\ NothingElseChanges

ColumnsNext ==
    SetOutList \/ WriteRawOutput \/ RenameColumns \/ WriteArtifact \/ IngestAgain

ColumnsSpec == ColumnsInit /\ [][ColumnsNext]_vars

(***************************************************************************)
(* The input files run_turbsim writes (run_turbsim.py:98-134).  A          *)
(* turbulence intensity is [text, value]: a number has text "", one        *)
(* character of an IEC class string has that character as text.            *)
(***************************************************************************)
MaxFields == 2

Number(x) == [text |-> "", value |-> x]
Character(c) == [text |-> c, value |-> 0]

\* turbulence_intensity as the caller gives it: a number, a list of numbers
\* or an IEC class, "A" being the default.
TurbulenceInputs ==
    { [kind |-> "number", list |-> << Number(10000) >>],
      [kind |-> "list", list |-> << Number(10000), Number(20000) >>],
      [kind |-> "class", list |-> << Character("A") >>],
      [kind |-> "class", list |-> << Character("B") >>] }

\* random.randint(-2147483648, 2147483647): two values of the range.
SeedSpace == { -2147483647 - 1, 2147483647 }

\* rand_seed: None, or a seed of the caller.
RandSeeds == { [given |-> FALSE, value |-> 0], [given |-> TRUE, value |-> 42] }

\* float(ti) raises ValueError on a text that is no number.
FloatRaises(ti) == ti.text # ""

GenerateInit ==
    /\ NothingElse
    /\ \E ws \in { << 5000 >>, << 5000, 15000 >> }, tis \in TurbulenceInputs,
          seed \in RandSeeds, reps \in 1..MaxFields, first \in 1..2 :
          frame = [func |-> "generate", pc |-> "write", wind_speed |-> ws,
                   turbulence_intensity |-> tis, rand_seed |-> seed,
                   wind_fields_per_case |-> reps, first_wind_field_number |-> first,
                   wind_and_ti |-> Product(ws, tis.list), n |-> 0,
                   inp_files |-> <<>>, written |-> <<>>, exc |-> ""]

\* run_turbsim.py:116-119: the seed written to the next input file, s being
\* the number random.randint returns.
RandSeed1(f, s) == IF f.rand_seed.given THEN f.rand_seed.value ELSE s

\* run_turbsim.py:111-134: one pass of the inner loop.
WriteInp ==
    /\ frame.func = "generate"
    /\ frame.pc = "write"
    /\ frame.n < frame.wind_fields_per_case * Len(frame.wind_and_ti)
    /\ LET m == Len(frame.wind_and_ti)
           i == frame.first_wind_field_number + (frame.n \div m)
           c == frame.wind_and_ti[(frame.n % m) + 1]
       IN \E s \in SeedSpace :
            frame' = IF FloatRaises(c[2])
                     THEN [frame EXCEPT !.pc = "raised", !.exc = "ValueError"]
                     ELSE [frame EXCEPT
                             !.n = @ + 1,
                             !.inp_files = Append(@,
                                 TurbsimId(c[1], c[2].value, i,
                                           frame.wind_fields_per_case,
                                           frame.first_wind_field_number)),
                             !.written = Append(@,
                                 [u |-> c[1], ti |-> c[2].value, i |-> i,
                                  RandSeed1 |-> RandSeed1(frame, s)])]
    /\ NothingElseChanges

\* run_turbsim.py:136-138: all input files written, scheduling begins.
Schedule ==
    /\ frame.func = "generate"
    /\ frame.pc = "write"
    /\ frame.n = frame.wind_fields_per_case * Len(frame.wind_and_ti)
    /\ frame' = [frame EXCEPT !.pc = "batch"]
    /\ NothingElseChanges

GenerateNext == WriteInp \/ Schedule

GenerateSpec == GenerateInit /\ [][GenerateNext]_vars

\* The steps of the calling Python process: it is never suspended for ever.
Coordinator ==
    \/ Construct
    \/ FindInitialState
    \/ BootstrapCall
    \/ BootstrapReturn
    \/ NextBatch
    \/ Prepare
    \/ Launch
    \/ Wait
    \/ Cleanup
    \/ Ingest
    \/ Message
    \/ TS_Construct
    \/ TS_NextBatch
    \/ TS_Launch
    \/ TS_Wait
    \/ TS_Message

\* Some running external process exits.
SomeProcExit == \E p \in 1..Len(procs) : ProcExit(p)

\* The campaign under the assumption that every external process
\* eventually exits and the coordinator keeps running.
FairSpec == Spec /\ WF_vars(Coordinator) /\ WF_vars(SomeProcExit)

(***************************************************************************)
(* Notions the properties are stated in.                                   *)
(***************************************************************************)
\* The processes launched by the running call.
CampaignProcs == {p \in 1..Len(procs) : procs[p].depth = Depth}

\* Case i of the running call has been launched and waited for, and its
\* exit code is known.
Finished(i) ==
    /\ ProcsOf(i) # {}
    /\ \A p \in ProcsOf(i) : procs[p].st = "waited" /\ procs[p].rc # NoneV

Failed(i) == \E p \in ProcsOf(i) : procs[p].st = "waited" /\ procs[p].rc > 0

GroupMembers(f, g) == {i \in 1..NCases(f) : GroupOf(f, i) = g}

GroupFailed(f, g) == \E i \in GroupMembers(f, g) : Failed(i)

NGroups(f) == IF NCases(f) = 0 THEN 0 ELSE GroupOf(f, NCases(f))

InFast == frame.func = "run_fast"

(***************************************************************************)
(* C1. At every point of a run_fast or run_turbsim campaign, the number of *)
(* external processes launched and not yet waited for is at most           *)
(* max_processes.                                                          *)
(***************************************************************************)
C1_MaxConcurrency ==
    Cardinality(Unwaited) <= RootFrame.args.max_processes

C1_Witness ==
    /\ Depth = 0
    /\ NCases(frame) > frame.args.max_processes
    /\ frame.args.max_processes > 1
    /\ Cardinality(Unwaited) = frame.args.max_processes

(***************************************************************************)
(* C2. Hard barrier: no case of a later group is launched (or, in          *)
(* run_fast, prepared) before every process of every earlier group has     *)
(* exited, been waited for and had its exit code recorded.                 *)
(***************************************************************************)
C2_Barrier ==
    \A i, j \in 1..NCases(frame) :
        (GroupOf(frame, i) < GroupOf(frame, j)
         /\ (j \in frame.prepared \/ ProcsOf(j) # {}))
        => Finished(i)

C2_Witness ==
    /\ InFast
    /\ \E i, j \in 1..NCases(frame) :
          /\ GroupOf(frame, i) < GroupOf(frame, j)
          /\ ProcsOf(j) # {}
          /\ Failed(i)

(***************************************************************************)
(* C3. When the campaign ends, its final message reports errors if and     *)
(* only if some process of the campaign, in whichever group, exited with a *)
(* non-zero code.                                                          *)
(***************************************************************************)
C3_FailureFlag ==
    frame.pc = "done" =>
        (frame.message = "errors" <=> \E i \in 1..NCases(frame) : Failed(i))

FastInputsOf(a) ==
    IF a.steady_given THEN a.steady_wind_speed ELSE WindFilesList(a)

C5_UniqueIds ==
    (InFast /\ frame.pc \notin {"start", "raised"}) =>
        \A i, j \in 1..NCases(frame) :
            FastInputsOf(frame.args)[i] # FastInputsOf(frame.args)[j]
                => Cases(frame)[i] # Cases(frame)[j]

(***************************************************************************)
(* C6. run_turbsim generates as many cases as the cross product of the     *)
(* speeds and intensities has pairs, times the number of replicates, and   *)
(* cases of different replicate number or different (speed, intensity)     *)
(* pair have different ids.                                                *)
(***************************************************************************)
C6_Count ==
    (frame.func = "run_turbsim" /\ frame.pc # "start"
        /\ frame.args.output_type \in OutputTypes) =>
        NCases(frame) = Len(WindAndTi(frame.args))
                            * frame.args.wind_fields_per_case

C6_CountAndDistinctIds ==
    (frame.func = "run_turbsim" /\ frame.pc # "start"
        /\ frame.args.output_type \in OutputTypes) =>
        /\ NCases(frame) = Len(WindAndTi(frame.args))
                              * frame.args.wind_fields_per_case
        /\ \A m, n \in 1..NCases(frame) :
              LET wt == WindAndTi(frame.args)
                  rep(x) == (x - 1) \div Len(wt)
                  pair(x) == wt[((x - 1) % Len(wt)) + 1]
              IN (rep(m) # rep(n) \/ pair(m) # pair(n))
                    => Cases(frame)[m] # Cases(frame)[n]

(***************************************************************************)
(* C7. A case's working directory is owned by that case alone from its     *)
(* preparation until its group has finished: no preparation step of        *)
(* another case touches it in between, and no cleanup step removes it      *)
(* while a process of the group has not been waited for.                   *)
(***************************************************************************)
\* Cases of the running batch whose working directory has been prepared.
Owners == {i \in frame.prepared : i >= frame.lo}

C7_Step ==
    /\ (InFast /\ frame.pc = "prepare" /\ frame'.prepared # frame.prepared) =>
          LET j == frame.lo + Len(frame.temp_dirs)
          IN \A i \in Owners \ {j} :
                TempDir(frame, Cases(frame)[i]) # TempDir(frame, Cases(frame)[j])
    /\ (InFast /\ frame.pc = "cleanup" /\ frame'.pc = "batch") =>
          \A p \in CampaignProcs : procs[p].st = "waited"

C7_ExclusiveOwnership == [][C7_Step]_vars

(***************************************************************************)
(* C8. After a group in which every process exited with code 0, none of    *)
(* the group's working directories exists when the next group is about to  *)
(* be prepared, nor during ingestion after the last group.                 *)
(***************************************************************************)
\* The group that finished last, at the head of the batch loop.
LastGroup == GroupMembers(frame, GroupOf(frame, frame.lo - 1))

C9_FailedGroupKept ==
    (InFast /\ frame.pc = "done") =>
        \A i \in 1..NCases(frame) :
            (/\ GroupFailed(frame, GroupOf(frame, i))
             /\ ~\E j \in 1..NCases(frame) :
                    /\ GroupOf(frame, j) > GroupOf(frame, i)
                    /\ Cases(frame)[j] = Cases(frame)[i])
            => TempDir(frame, Cases(frame)[i]) \in dirs

C9_Witness ==
    /\ InFast
    /\ frame.pc = "done"
    /\ NGroups(frame) >= 2
    /\ GroupFailed(frame, 1)
    /\ ~GroupFailed(frame, 2)
    /\ \E i \in GroupMembers(frame, 1) :
          /\ ~Failed(i)
          /\ TempDir(frame, Cases(frame)[i]) \in dirs

(***************************************************************************)
(* C10. With initialize_turbine_state enabled and neither a custom nor a   *)
(* cached table, the bootstrap simulation has finished and the             *)
(* InitialStateTable has been produced before any working directory of the *)
(* main campaign is prepared and before any of its processes is launched.  *)
(***************************************************************************)
C10_BootstrapFirst ==
    (/\ RootFrame.func = "run_fast"
     /\ RootFrame.args.initialize_turbine_state
     /\ ~RootFrame.args.custom_initial_state
     /\ \/ RootFrame.prepared # {}
        \/ \E p \in 1..Len(procs) : procs[p].depth = 0)
    => /\ Depth = 0
       /\ frame.init_state \in {"cached", "computed"}
       /\ \A p \in 1..Len(procs) : procs[p].depth > 0 => procs[p].st = "waited"

C10_Witness ==
    /\ Depth = 0
    /\ InFast
    /\ frame.init_state = "computed"
    /\ \E p \in 1..Len(procs) : procs[p].depth = 0
    /\ \E p \in 1..Len(procs) : procs[p].depth = 1 /\ procs[p].st = "waited"

(***************************************************************************)
(* C11. If the bootstrap simulation's process exits with a non-zero code,  *)
(* the bootstrap fails: the calling run_fast raises, no table is computed  *)
(* or written for this campaign, and no case of the main campaign gets a   *)
(* process.                                                                *)
(***************************************************************************)
BootstrapProcFailed ==
    \E p \in 1..Len(procs) : procs[p].depth = 1 /\ procs[p].rc > 0

C11_BootstrapFailureStops ==
    BootstrapProcFailed =>
        /\ Depth = 0 => frame.pc = "raised"
        /\ \A b \in boots : b.campaign # campaign
        /\ \A q \in 1..Len(procs) : procs[q].depth # 0

(***************************************************************************)
(* C12. Once a bootstrap has completed in one campaign, a later campaign on *)
(* the same model with initialize_turbine_state enabled launches no         *)
(* bootstrap and reads the persisted table, whatever initialization_options *)
(* the first campaign used.                                                 *)
(***************************************************************************)
EarlierBoots == {b \in boots : b.campaign < campaign}

InitStateFound == RootFrame.pc \notin {"start", "init_state", "raised"}

C12_BootstrapOnce ==
    (/\ EarlierBoots # {}
     /\ RootFrame.func = "run_fast"
     /\ RootFrame.args.initialize_turbine_state)
    => /\ Depth = 0
       /\ (InitStateFound /\ ~frame.args.custom_initial_state)
              => frame.init_state = "cached"

(***************************************************************************)
(* C12, amended. The later campaign launches no bootstrap when an earlier   *)
(* bootstrap wrote its table to the default place (initial_state_output not *)
(* given), and it reads that table unless it is given a custom_initial_state.*)
(***************************************************************************)
C12_BootstrapOnceDefaultOutput ==
    (/\ \E b \in EarlierBoots : ~b.initial_state_output
     /\ RootFrame.func = "run_fast"
     /\ RootFrame.args.initialize_turbine_state)
    => /\ Depth = 0
       /\ (InitStateFound /\ ~frame.args.custom_initial_state)
              => frame.init_state = "cached"

C12_Witness ==
    /\ \E b \in EarlierBoots : ~b.initial_state_output
    /\ Depth = 0
    /\ InFast
    /\ frame.args.initialize_turbine_state
    /\ ~frame.args.custom_initial_state
    /\ frame.init_state = "cached"
    /\ \E p \in 1..Len(procs) : procs[p].st = "waited"

(***************************************************************************)
(* C13. A campaign never mutates the model directory: no step creates,     *)
(* modifies or deletes a file inside it.                                   *)
(***************************************************************************)
C13_ModelDirUntouched == [][model_dir' = model_dir]_vars

(***************************************************************************)
(* C13, amended. The only file a campaign creates or modifies inside the   *)
(* model directory is the cached table simdriver_initial_state.csv; the    *)
(* model's own files are never created, modified or deleted.               *)
(***************************************************************************)
C13_OnlyCacheStep ==
    /\ DOMAIN model_dir \subseteq DOMAIN model_dir'
    /\ DOMAIN model_dir' \subseteq DOMAIN model_dir \cup {CacheFile}
    /\ \A f \in DOMAIN model_dir \ {CacheFile} : model_dir'[f] = model_dir[f]

C13_OnlyCacheWritten == [][C13_OnlyCacheStep]_vars

C13_Witness ==
    /\ cache
    /\ model_dir[CacheFile] = "table"
    /\ Depth = 0
    /\ InFast
    /\ frame.prepared # {}
    /\ frame.pc = "done"

(***************************************************************************)
(* C14. Case construction has no filesystem side effect: it writes no      *)
(* per-case configuration file and creates no working directory; all of    *)
(* that happens in the scheduler when the case's group is prepared.        *)
(***************************************************************************)
Constructing == InFast /\ frame.pc = "start"

C14_NoFilesAtConstruction ==
    [][Constructing => (dat' = dat /\ fst' = fst /\ dirs' = dirs)]_vars

(***************************************************************************)
(* C14, amended. Case construction writes one inflow file                  *)
(* <output_dir>/<id>.dat per constructed case and nothing else; .fst files *)
(* and working directories are only created when a group is prepared,      *)
(* after the initial state has been found.                                 *)
(***************************************************************************)
C14_Step ==
    /\ Constructing =>
          /\ fst' = fst /\ dirs' = dirs /\ model_dir' = model_dir
          /\ frame'.pc # "raised" =>
                dat' = dat \cup {<<frame.args.output_dir, Cases(frame')[i]>> :
                                   i \in 1..NCases(frame')}
          /\ dat' \ dat \subseteq
                {<<frame.args.output_dir, InflowFiles(frame.args)[i].stem>> :
                    i \in 1..Len(InflowFiles(frame.args))}
    /\ (fst' \ fst # {} \/ dirs' \ dirs # {}) =>
          /\ InFast /\ frame.pc = "prepare"
          /\ frame.args.initialize_turbine_state => frame.init_state # "unbound"
    /\ dat' \ dat # {} => Constructing

C14_OnlyInflowAtConstruction == [][C14_Step]_vars

C14_Witness ==
    /\ InFast /\ Depth = 0
    /\ frame.pc = "init_state"
    /\ NCases(frame) > 1
    /\ \A i \in 1..NCases(frame) : <<frame.args.output_dir, Cases(frame)[i]>> \in dat
    /\ fst = {} /\ dirs = {}

(***************************************************************************)
(* C15. run_fast raises "no wind input found", with no process spawned,    *)
(* whenever neither steady_wind_speed nor wind_files is supplied, and      *)
(* whenever the supplied directory or list yields no wind file.            *)
(***************************************************************************)
NoWindInput(a) ==
    /\ ~a.steady_given
    /\ \/ a.wf_kind = "none"
       \/ Len(WindFilesList(a)) = 0

C15_NoWindInputRaises ==
    (/\ InFast
     /\ frame.args.fast_version_ok /\ frame.args.model_ok
     /\ NoWindInput(frame.args)
     /\ frame.pc # "start")
    => /\ frame.pc = "raised"
       /\ frame.exc = "no wind input found"
       /\ CampaignProcs = {}

(***************************************************************************)
(* C16. A call whose inputs make case construction raise (an unsupported   *)
(* wind-file extension anywhere in the list, an unsupported output_type or *)
(* OpenFAST version, missing model files) raises before any external       *)
(* process of the campaign has been spawned, and never gets further.       *)
(***************************************************************************)
ConstructionFails ==
    \/ InFast /\ ConstructRaises(frame.args)
    \/ frame.func = "run_turbsim" /\ frame.args.output_type \notin OutputTypes

C16_ConstructionErrorsFirst ==
    ConstructionFails =>
        /\ procs = <<>>
        /\ Depth = 0
        /\ frame.pc \in {"start", "raised"}
        /\ frame.pc = "raised" => frame.exc # "none"

C16_Witness ==
    /\ InFast
    /\ frame.pc = "raised"
    /\ frame.exc = "Unknown wind file"
    /\ Len(WindFilesList(frame.args)) = 2
    /\ SupportedExt(WindFilesList(frame.args)[1])
    /\ procs = <<>>

(***************************************************************************)
(* C17. Ingestion is attempted for every case, in input order; a failure   *)
(* appends the case's id to the failure list and ingestion goes on.  Once  *)
(* ingestion is over, every case either had its artifact written in this   *)
(* pass or is in the failure list, never both and never neither.           *)
(***************************************************************************)
\* The ids of the cases among the first n that were not converted, in order.
RECURSIVE NotConverted(_, _)
NotConverted(f, n) ==
    IF n = 0 THEN <<>>
    ELSE IF n \in f.converted THEN NotConverted(f, n - 1)
    ELSE Append(NotConverted(f, n - 1), Cases(f)[n])

IngestionOver == InFast /\ frame.pc = "done"

C17_IngestEveryCase ==
    InFast =>
        /\ frame.converted \subseteq 1..(frame.ing - 1)
        /\ frame.failures = NotConverted(frame, frame.ing - 1)
        /\ \A i \in frame.converted :
              <<frame.args.output_dir, Cases(frame)[i]>> \in parquet
        /\ IngestionOver =>
              /\ frame.ing = NCases(frame) + 1
              /\ \A i \in 1..NCases(frame) :
                    (i \in frame.converted) # (Cases(frame)[i] \in Range(frame.failures))

C17_Witness ==
    /\ IngestionOver
    /\ NCases(frame) = 3
    /\ frame.converted = {3}
    /\ Len(frame.failures) = 2

(***************************************************************************)
(* C18. In a batch where exactly one case's process exits non-zero, every  *)
(* other case of the batch whose process exited 0 and wrote its raw output *)
(* still gets a result artifact in the ingestion pass.                     *)
(***************************************************************************)
ExitedCleanly(i) ==
    \A p \in ProcsOf(i) : procs[p].rc = 0 /\ procs[p].wrote = "good"

C18_OthersStillIngested ==
    IngestionOver =>
        \A g \in 1..NGroups(frame) :
            Cardinality({i \in GroupMembers(frame, g) : Failed(i)}) = 1 =>
                \A j \in GroupMembers(frame, g) :
                    ExitedCleanly(j) => j \in frame.converted

(***************************************************************************)
(* C19. Every case whose process exited with a non-zero code has its id    *)
(* exactly once in the failure summary printed at the end of the run.      *)
(***************************************************************************)
Occurrences(seq, x) == Cardinality({k \in 1..Len(seq) : seq[k] = x})

C19_FailedListedOnce ==
    IngestionOver =>
        \A i \in 1..NCases(frame) :
            Failed(i) => Occurrences(frame.summary.ids, Cases(frame)[i]) = 1

(***************************************************************************)
(* C20. The failure message at the end of the run reports N, the length of *)
(* the failure list, followed by exactly the ids in that list.             *)
(***************************************************************************)
C20_MessageCountsFailures ==
    (IngestionOver /\ Len(frame.failures) > 0) =>
        /\ frame.summary.n = Len(frame.failures)
        /\ frame.summary.ids = frame.failures

(***************************************************************************)
(* C21. The cases are dispatched in consecutive groups in input order:     *)
(* every group has at most max_processes cases, every group but the last   *)
(* has exactly max_processes, there are ceil(n / max_processes) groups and *)
(* each case is in exactly one group (three cases with limit 2: a group of *)
(* 2, then a group of 1).                                                  *)
(***************************************************************************)
\* The cases whose process was launched in the g-th pass of the batch loop.
LaunchedIn(g) == {procs[p].case : p \in {q \in CampaignProcs : procs[q].batch = g}}

\* The g-th pass of the batch loop has launched all its processes.
GroupLaunched(g) ==
    \/ g < frame.counter - 1
    \/ g = frame.counter - 1 /\ frame.pc \notin {"prepare", "launch"}

LoopOver == frame.pc \in {"ingest", "message", "done"}

C21_ConsecutiveGroups ==
    LET N == frame.args.max_processes
        n == NCases(frame)
    IN /\ \A g \in 1..(frame.counter - 1) :
             GroupLaunched(g) =>
                 /\ LaunchedIn(g) = ((g - 1) * N + 1) .. Min(g * N, n)
                 /\ Cardinality(LaunchedIn(g)) <= N
                 /\ g < Ceil(n, N) => Cardinality(LaunchedIn(g)) = N
       /\ \A i \in 1..n : Cardinality(ProcsOf(i)) <= 1
       /\ LoopOver =>
             /\ frame.counter - 1 = Ceil(n, N)
             /\ \A i \in 1..n : Cardinality(ProcsOf(i)) = 1

C21_Witness ==
    /\ InFast /\ Depth = 0
    /\ frame.pc = "done"
    /\ NCases(frame) = 3
    /\ frame.args.max_processes = 2
    /\ LaunchedIn(1) = {1, 2}
    /\ LaunchedIn(2) = {3}

(***************************************************************************)
(* C22. Provided every external process eventually exits, a run_fast       *)
(* campaign that has entered its batch loop terminates: all groups are     *)
(* processed, every case is dispatched and waited for exactly once,        *)
(* ingestion visits every case, and the completion message is printed,     *)
(* whatever the exit codes.                                                *)
(***************************************************************************)
LoopEntered == InFast /\ frame.pc = "batch" /\ frame.lo = 1

Completed ==
    /\ InFast
    /\ frame.pc = "done"
    /\ frame.message # "none"
    /\ frame.ing = NCases(frame) + 1
    /\ \A i \in 1..NCases(frame) :
          /\ Cardinality(ProcsOf(i)) = 1
          /\ \A p \in ProcsOf(i) : procs[p].st = "waited"

C22_Terminates == LoopEntered ~> Completed

(***************************************************************************)
(* C23. With initialize_turbine_state disabled, no bootstrap process is    *)
(* run, no initial-state table is read, every case's initial-condition     *)
(* wind speed is None, and every prepared case gets the fixed default      *)
(* rotor speed of 5 rpm, with no interpolation.                            *)
(***************************************************************************)
InitDisabled ==
    /\ RootFrame.func = "run_fast"
    /\ ~RootFrame.args.initialize_turbine_state

NoBootstrapNoTable ==
    /\ Depth = 0
    /\ \A p \in 1..Len(procs) : procs[p].depth = 0
    /\ frame.init_state = "unbound"

DefaultRotor ==
    \A j \in frame.prepared :
        frame.ed[j] = [RotSpeed |-> DefaultRotSpeed, interp |-> FALSE]

C23_InitDisabled ==
    InitDisabled =>
        /\ NoBootstrapNoTable
        /\ DefaultRotor
        /\ \A i \in 1..NCases(frame) : frame.inflow_files[i].v0_init = NoneV

(***************************************************************************)
(* C23, amended. With initialize_turbine_state disabled, no bootstrap      *)
(* process is run, no table is read and every prepared case gets the       *)
(* default rotor speed of 5 rpm with no interpolation.  The                *)
(* initial-condition wind speed is None for every wind-file case; a steady *)
(* case carries its wind speed, which is not used.                         *)
(***************************************************************************)
C23_InitDisabledWindFiles ==
    InitDisabled =>
        /\ NoBootstrapNoTable
        /\ DefaultRotor
        /\ \A i \in 1..NCases(frame) :
              frame.inflow_files[i].v0_init =
                  IF frame.args.steady_given THEN frame.args.steady_wind_speed[i]
                  ELSE NoneV

C23_Witness ==
    /\ InitDisabled
    /\ ~frame.args.steady_given
    /\ frame.pc = "done"
    /\ frame.prepared = {1, 2}
    /\ DefaultRotor

(***************************************************************************)
(* C24. A lookup at a wind speed below the table's smallest key or above   *)
(* its largest key returns the value of the boundary row and raises no     *)
(* error; between two keys it returns the linear interpolation of the two  *)
(* neighbouring rows.                                                      *)
(***************************************************************************)
LookedUp == frame.func = "np.interp" /\ frame.pc = "done"

\* y is the value at x of the line through (x1, y1) and (x2, y2), rounded down.
OnLine(x, y, x1, y1, x2, y2) ==
    LET d == x2 - x1
        num == y1 * d + (x - x1) * (y2 - y1)
    IN y * d <= num /\ num < (y + 1) * d

Analyzed == frame.func = "initial_state" /\ frame.pc = "done"

Increasing(seq) == \A i \in 1..(Len(seq) - 1) : seq[i] < seq[i + 1]

C25_OneRowPerStep ==
    (Analyzed /\ Increasing(WindSteps(frame.args))) =>
        /\ Len(frame.table) = Len(WindSteps(frame.args))
        /\ \A i \in 1..Len(frame.table) :
              frame.table[i].v0 = WindSteps(frame.args)[i]
        /\ \A i \in 1..(Len(frame.table) - 1) :
              frame.table[i].v0 < frame.table[i + 1].v0

C25_Witness ==
    /\ Analyzed
    /\ Len(frame.table) = 3
    /\ frame.table[1].v0 = 3000 /\ frame.table[3].v0 = 7000

(***************************************************************************)
(* C26. Every analysis window has length dwell * fraction and ends exactly *)
(* where its step's hold period ends in the wind profile; for steps 3, 5,  *)
(* 7 with startup 300 s, rise 30 s, dwell 120 s and fraction 0.25 every    *)
(* window is 30 s long and the table has the 3 rows keyed 3, 5, 7.         *)
(***************************************************************************)
\* The time of the last sample of the hold period of step i.
HoldEnd(i) == frame.time[frame.marks[i].last]

ExampleSteps ==
    /\ WindSteps(frame.args) = <<3000, 5000, 7000>>
    /\ frame.args.startup_time = 30000
    /\ frame.args.rise_time = 3000
    /\ frame.args.time_at_speed = 12000
    /\ frame.args.analyzed_fraction = 25

C26_WindowsEndWithHold ==
    Analyzed =>
        /\ \A i \in 1..Len(frame.windows) :
              /\ (frame.windows[i].end - frame.windows[i].start) * 100
                    = frame.args.time_at_speed * frame.args.analyzed_fraction
              /\ frame.windows[i].end = HoldEnd(i)
        /\ ExampleSteps =>
              /\ \A i \in 1..Len(frame.windows) :
                    frame.windows[i].end - frame.windows[i].start = 3000
              /\ frame.table = <<[v0 |-> 3000], [v0 |-> 5000], [v0 |-> 7000]>>

(***************************************************************************)
(* C30. The wind profile holds the first step's speed at every sample of   *)
(* the startup duration, from time 0 on; for each later step it ramps      *)
(* linearly over the rise time from the previous step's speed to the       *)
(* step's speed and then holds that speed for the dwell time; the last     *)
(* time stamp of the profile is the simulated time span.                   *)
(***************************************************************************)
StartupHeld ==
    \A k \in 1..(frame.marks[1].hold - 1) :
        frame.speed[k] = WindSteps(frame.args)[1]

Ramped(i) ==
    LET m == frame.marks[i]
        t0 == frame.time[m.first - 1]
    IN /\ m.from = WindSteps(frame.args)[i - 1]
       /\ \A k \in m.first..(m.hold - 1) :
             OnLine(frame.time[k], frame.speed[k],
                    t0, m.from, t0 + frame.args.rise_time, WindSteps(frame.args)[i])
       /\ frame.time[m.hold - 1] = t0 + frame.args.rise_time

Held(i) ==
    LET m == frame.marks[i]
    IN /\ \A k \in m.hold..m.last : frame.speed[k] = WindSteps(frame.args)[i]
       /\ frame.time[m.last] - frame.time[m.hold - 1] = frame.args.time_at_speed

C30_ProfileShape ==
    Analyzed =>
        /\ frame.marks # <<>> => StartupHeld
        /\ \A i \in 2..Len(frame.marks) : Ramped(i)
        /\ \A i \in 1..Len(frame.marks) : Held(i)
        /\ frame.time_span = Last(frame.time)

(***************************************************************************)
(* C27. The id of a case names its result artifact: a steady speed u       *)
(* yields U_<u with two decimals, "." replaced by "d"> (15 gives U_15d00), *)
(* and a wind field generated by run_turbsim with replicates yields, after *)
(* run_fast on its directory, the artifact U_<u>_TI_<ti>_C_<nn>, the id of *)
(* the generating case.                                                    *)
(***************************************************************************)
Ingested == frame.func = "pipeline" /\ frame.pc = "done"

Renamed == frame.func = "columns" /\ frame.pc \in { "renamed", "done" }

InjectiveRename == \A a, b \in DOMAIN RENAME : RENAME[a] = RENAME[b] => a = b

C28_UniqueColumns == InjectiveRename /\ (Renamed => Unique(frame.columns))

(***************************************************************************)
(* C29. Ingestion is idempotent: ingesting a case a second time, its raw   *)
(* output file unchanged, produces an artifact identical to the first one  *)
(* and leaves the raw output file as it was.                               *)
(***************************************************************************)
IngestedTwice == frame.func = "columns" /\ frame.pc = "done" /\ frame.pass = 2

Generating == frame.func = "generate"

C31_ReplicateSeedsDiffer ==
    (Generating /\ frame.wind_fields_per_case > 1) =>
        \A a, b \in DOMAIN frame.written :
            (/\ frame.written[a].u = frame.written[b].u
             /\ frame.written[a].ti = frame.written[b].ti
             /\ frame.written[a].i # frame.written[b].i)
            => frame.written[a].RandSeed1 # frame.written[b].RandSeed1

(***************************************************************************)
(* C39. run_turbsim called with wind speeds and turbulence_intensity given *)
(* as an IEC class string (the default "A" included) constructs exactly    *)
(* one case per wind speed and replicate and proceeds to scheduling        *)
(* without raising.                                                        *)
(***************************************************************************)
ClassGiven == Generating /\ frame.turbulence_intensity.kind = "class"

C39_ClassStringAccepted ==
    ClassGiven =>
        /\ frame.pc # "raised"
        /\ frame.pc = "batch" =>
              Len(frame.inp_files) = Len(frame.wind_speed) * frame.wind_fields_per_case

(***************************************************************************)
(* C32. The bootstrap never recurses more than one level: the nested       *)
(* run_fast that initial_state invokes runs with the initialization of the *)
(* turbine state disabled, so it starts no bootstrap of its own and reads  *)
(* no initial-state table, whatever the initialization_options.            *)
(***************************************************************************)
Nested == Depth > 0

C32_OneLevelOfBootstrap ==
    /\ Depth <= 1
    /\ Nested =>
          /\ ~frame.args.initialize_turbine_state
          /\ frame.init_state = "unbound"
          /\ frame.pc # "in_bootstrap"
          /\ \A j \in DOMAIN frame.ed : ~frame.ed[j].interp

C32_Witness ==
    /\ Nested
    /\ frame.pc = "done"
    /\ frame.message = "success"
    /\ stack[1].args.initialization_options.retain_temp_files
    /\ stack[1].args.initialization_options.initial_state_output

(***************************************************************************)
(* C33. Within each run_fast group, the working directory and the          *)
(* configuration files of every case of the group are prepared before the  *)
(* first process of the group is launched, and no preparation step of the  *)
(* group runs while a process of the group is running.                     *)
(***************************************************************************)
\* The processes of the group the batch loop is at.
CurrentGroup == {p \in CampaignProcs : procs[p].batch = frame.counter - 1}

GroupPrepared ==
    \A j \in Batch(frame) :
        /\ j \in frame.prepared
        /\ j \in DOMAIN frame.ed
        /\ TempDir(frame, Cases(frame)[j]) \in dirs
        /\ <<frame.args.output_dir, Cases(frame)[j]>> \in fst

C33_PreparedBeforeLaunch ==
    InFast =>
        /\ frame.pc = "prepare" =>
              /\ CurrentGroup = {}
              /\ \A p \in CampaignProcs : procs[p].st = "waited"
        /\ (frame.pc \in {"launch", "wait"} /\ CurrentGroup # {}) => GroupPrepared

C33_Witness ==
    /\ InFast
    /\ frame.pc = "launch"
    /\ Cardinality(CurrentGroup) = 1
    /\ Cardinality(Batch(frame)) = 2
    /\ procs[Len(procs)].st = "running"

(***************************************************************************)
(* C34. For 0 < analyzed_fraction <= 1 and positive startup, rise and      *)
(* dwell times, the analysis windows are ordered and pairwise disjoint     *)
(* (start_i < end_i <= start_{i+1}), and throughout each window the wind   *)
(* speed of the profile is constant and equal to the window's step speed:  *)
(* no window overlaps a ramp or the startup phase.                         *)
(***************************************************************************)
\* The time from which on the profile stays at the speed of step i, until
\* the end of that step's hold.
ConstantFrom(i) ==
    LET m == frame.marks[i]
    IN IF frame.speed[m.hold - 1] = WindSteps(frame.args)[i]
       THEN frame.time[m.hold - 1]
       ELSE frame.time[m.hold]

WindowInHold(i) ==
    /\ frame.windows[i].v0 = WindSteps(frame.args)[i]
    /\ ConstantFrom(i) <= frame.windows[i].start
    /\ frame.windows[i].end <= HoldEnd(i)
    /\ \A k \in DOMAIN frame.time :
          (frame.windows[i].start <= frame.time[k]
             /\ frame.time[k] < frame.windows[i].end)
          => frame.speed[k] = frame.windows[i].v0

C34_WindowsDisjointAndSteady ==
    Analyzed =>
        \A i \in 1..Len(frame.windows) :
            /\ frame.windows[i].start < frame.windows[i].end
            /\ i < Len(frame.windows) =>
                  frame.windows[i].end <= frame.windows[i + 1].start
            /\ WindowInHold(i)

(***************************************************************************)
(* C35. Every external process launched by run_fast or run_turbsim is      *)
(* waited for exactly once before the function returns or raises: no       *)
(* launched process is left un-waited on any path, a failure while         *)
(* launching a later process of the same group included.                   *)
(***************************************************************************)
Returned == Depth = 0 /\ frame.pc \in {"done", "raised"}

C35_EveryProcessWaited == Returned => Unwaited = {}

(***************************************************************************)
(* C36. A campaign whose case list is empty (run_fast given an empty list  *)
(* of wind files; run_turbsim given an empty wind_and_ti list or           *)
(* wind_fields_per_case = 0) launches no process, completes without        *)
(* raising and reports successful completion.                              *)
(***************************************************************************)
EmptyCampaign ==
    /\ Depth = 0
    /\ \/ /\ frame.func = "run_fast"
          /\ frame.args.fast_version_ok /\ frame.args.model_ok
          /\ ~frame.args.steady_given
          /\ frame.args.wf_kind = "list"
          /\ frame.args.wind_files = <<>>
       \/ /\ frame.func = "run_turbsim"
          /\ frame.args.output_type \in OutputTypes
          /\ \/ frame.args.wind_and_ti_given /\ frame.args.wind_and_ti = <<>>
             \/ frame.args.wind_fields_per_case = 0

C36_EmptyCampaignSucceeds ==
    EmptyCampaign =>
        /\ \A p \in 1..Len(procs) : procs[p].depth > 0
        /\ frame.pc # "raised"
        /\ frame.pc = "done" => frame.message = "success"

(***************************************************************************)
(* C37. Every result artifact written by a campaign's ingestion derives    *)
(* from raw output produced by the process launched for that case in the   *)
(* same campaign: a raw output file left in the output directory by an     *)
(* earlier campaign is never ingested as the result of a case whose        *)
(* current process failed without writing output.                          *)
(***************************************************************************)
\* A process of the running call wrote the raw output of case i (or of a
\* case of the same id) in this campaign.
FreshOutput(i) ==
    \E p \in CampaignProcs :
        /\ procs[p].stem = Cases(frame)[i]
        /\ procs[p].wrote # "none"

C37_NoStaleOutputIngested ==
    InFast => \A i \in frame.converted : FreshOutput(i)

(***************************************************************************)
(* C38. A working directory left over for a case id by an earlier aborted  *)
(* or failed campaign is removed before that case's model copy is made, so *)
(* at launch time the case's working directory contains exactly a fresh    *)
(* copy of the model directory plus this campaign's configuration for the  *)
(* case.                                                                   *)
(***************************************************************************)
\* The working directory of the case process p runs.
WorkDirOf(p) == frame.work[TempDir(frame, procs[p].stem)]

C38_FreshWorkDir ==
    (InFast /\ frame.pc \in {"launch", "wait"}) =>
        \A p \in CurrentGroup :
            /\ TempDir(frame, procs[p].stem) \in dirs
            /\ WorkDirOf(p) = [model |-> "copy", leftover |-> FALSE,
                               config |-> procs[p].case]

====
